---- MODULE Spec2Model ----
(***************************************************************************)
(* Superstore dashboard (Final_Superstore_Berger_Velastegui_Villagomez.py) *)
(* as a state machine.  One behaviour is one Streamlit process: the script *)
(* is run top to bottom once per render pass, data_loader is memoised by   *)
(* st.cache_data for the life of the process, everything else is rebuilt   *)
(* in every pass.                                                          *)
(*                                                                         *)
(* Units: a Discount is counted in slider steps of 0.01 (0.02 is 2), a     *)
(* Profit or Sales amount in whole dollars.  A csv cell is its text; the   *)
(* empty text is a missing cell.  Sets stand for the sorted option lists   *)
(* of the sidebar and for the sorted group keys of groupby: only their     *)
(* members matter to what is modelled.                                     *)
(***************************************************************************)
EXTENDS Integers, Sequences, FiniteSets, TLC

VARIABLES fs, cache, reads, served, pc, df_full, sel, df, warned,
          kpis, max_abs, worst, insight, rollups, pivot, summary

vars == <<fs, cache, reads, served, pc, df_full, sel, df, warned,
          kpis, max_abs, worst, insight, rollups, pivot, summary>>

(***************************************************************************)
(* Bounds of the model.                                                    *)
(***************************************************************************)
MaxRows == 2
MaxFiles == 2
MaxReads == 2

(* Program constant: the pivot keeps at most this many states. *)
MAX_STATES == 25

TARGET == "superstore.csv"
FileNames == {TARGET, "ventas.csv"}

(***************************************************************************)
(* Small helpers over sequences and sets.                                  *)
(***************************************************************************)
Range(s) == {s[i] : i \in 1..Len(s)}

RECURSIVE SumSeq(_)
SumSeq(s) == IF s = <<>> THEN 0 ELSE Head(s) + SumSeq(Tail(s))

Column(view, col) == [i \in 1..Len(view) |-> view[i][col]]
Unique(view, col) == Range(Column(view, col))
MinOf(S) == CHOOSE x \in S : \A y \in S : x <= y
MaxOf(S) == CHOOSE x \in S : \A y \in S : x >= y
Abs(x) == IF x < 0 THEN -x ELSE x

(* The sequences over S of length 1..n. *)
SeqsUpTo(S, n) == UNION {[1..k -> S] : k \in 1..n}

(***************************************************************************)
(* The csv files.  A file is its name, whether its header has the column   *)
(* "Order Date", and its rows as cells of text.                            *)
(***************************************************************************)
CsvRow(region, state, sub, discount, profit) ==
  [Region |-> region, State |-> state,
   Category |-> IF sub = "Phones" THEN "Technology" ELSE "Furniture",
   SubCategory |-> sub, Discount |-> discount, Profit |-> profit, Sales |-> "10"]

(* Rows that differ in what the filters read. *)
FilterRows ==
  {CsvRow(r, "Texas", s, d, "1") :
     r \in {"Central", "West"}, s \in {"Tables", "Phones"}, d \in {"0.00", "0.02"}}

(* Rows that differ in what the aggregates read; "" is a missing cell. *)
ProfitRows ==
  {CsvRow(r, st, "Tables", "0.00", p) :
     r \in {"Central", "Total"}, st \in {"Texas", ""}, p \in {"-2", "", "1"}}

File(name, hasOrderDate, rows) ==
  [name |-> name, hasOrderDate |-> hasOrderDate, rows |-> rows]

(* Home directories of up to MaxFiles files, in os.walk order. *)
SmallTables ==
  {<<CsvRow("Central", "Texas", "Tables", "0.00", "1")>>,
   <<CsvRow("Total", "", "Phones", "0.02", "-2")>>}
InitTrees ==
  {<<>>} \cup SeqsUpTo({File(n, od, rows) :
                          n \in FileNames, od \in BOOLEAN, rows \in SmallTables}, MaxFiles)

(* Home directories holding the one dataset, of up to MaxRows rows. *)
InitDatasets ==
  {<<File(TARGET, TRUE, rows)>> :
     rows \in SeqsUpTo(FilterRows, MaxRows) \cup SeqsUpTo(ProfitRows, MaxRows)}

(***************************************************************************)
(* pandas conversions, by what they do to a cell.                          *)
(***************************************************************************)
NaN == "NaN"

(* read_csv: an empty cell of a text column is read as NaN. *)
ReadText(cell) == IF cell = "" THEN NaN ELSE cell

(* pd.to_numeric(errors="coerce"): the number a cell spells, else NaN. *)
ToNumeric(cell) ==
  CASE cell = "-2"   -> [nan |-> FALSE, v |-> -2]
    [] cell = "1"    -> [nan |-> FALSE, v |-> 1]
    [] cell = "10"   -> [nan |-> FALSE, v |-> 10]
    [] cell = "0.00" -> [nan |-> FALSE, v |-> 0]
    [] cell = "0.01" -> [nan |-> FALSE, v |-> 1]
    [] cell = "0.02" -> [nan |-> FALSE, v |-> 2]
    [] OTHER         -> [nan |-> TRUE, v |-> 0]

(* .fillna(0) *)
FillNa0(x) == IF x.nan THEN 0 ELSE x.v

(* .astype(str): the text of a value.  What happens to NaN depends on the  *)
(* pandas build: before 3.0 NaN becomes the text "nan", from 3.0 on the    *)
(* str dtype keeps it missing.                                             *)
AsTypeStr(v, keepsNaN) == IF v = NaN /\ ~keepsNaN THEN "nan" ELSE v

(* .fillna("Unknown") *)
FillNaUnknown(v) == IF v = NaN THEN "Unknown" ELSE v

(* drop_duplicates(): the first occurrence of every row, in order. *)
RECURSIVE DropDuplicates(_)
DropDuplicates(rows) ==
  IF rows = <<>> THEN <<>>
  ELSE LET init == DropDuplicates(SubSeq(rows, 1, Len(rows) - 1))
           last == rows[Len(rows)]
       IN IF last \in Range(init) THEN init ELSE Append(init, last)

(* data_cleaning: duplicates dropped; no text column of the modelled files *)
(* parses as a number or as a date as a whole, so the columns stay text.   *)
data_cleaning(rows) == DropDuplicates(rows)

NumericFill(cell) == FillNa0(ToNumeric(cell))
CategoricalFill(cell, keepsNaN) == FillNaUnknown(AsTypeStr(ReadText(cell), keepsNaN))

(* Lines 66-72 on one row. *)
Normalise(row, keepsNaN) ==
  [Region |-> CategoricalFill(row.Region, keepsNaN),
   State |-> CategoricalFill(row.State, keepsNaN),
   Category |-> CategoricalFill(row.Category, keepsNaN),
   SubCategory |-> CategoricalFill(row.SubCategory, keepsNaN),
   Discount |-> NumericFill(row.Discount),
   Profit |-> NumericFill(row.Profit),
   Sales |-> NumericFill(row.Sales)]

NotFound == [found |-> FALSE, df |-> <<>>]

(* The body of data_loader: the walk from the i-th file on.  A file of the *)
(* name is read and cleaned; it is returned only if it has "Order Date",   *)
(* otherwise the walk goes on.                                             *)
RECURSIVE Walk(_, _, _)
Walk(i, nombre_archivo, keepsNaN) ==
  IF i > Len(fs) THEN NotFound
  ELSE IF fs[i].name = nombre_archivo
       THEN LET cleaned == data_cleaning(fs[i].rows)
            IN IF fs[i].hasOrderDate
               THEN [found |-> TRUE,
                     df |-> [k \in 1..Len(cleaned) |-> Normalise(cleaned[k], keepsNaN)]]
               ELSE Walk(i + 1, nombre_archivo, keepsNaN)
       ELSE Walk(i + 1, nombre_archivo, keepsNaN)

data_loader(nombre_archivo, keepsNaN) == Walk(1, nombre_archivo, keepsNaN)

(* st.cache_data: whether a call with this argument is served from memory. *)
NoEntry == [cached |-> FALSE, value |-> <<>>]
(* Faulty variant of CacheHit: the decorator is missing, every call runs the body. *)
CacheNeverHit(nombre_archivo) == FALSE
CacheHit(nombre_archivo) == cache[nombre_archivo].cached

(***************************************************************************)
(* Sidebar: the options and defaults of the four widgets (lines 85-111).   *)
(***************************************************************************)
RegionOptions(full) == Unique(full, "Region")
CategoryOptions(full) == Unique(full, "Category")
(* Faulty variant of subcats_all: the options are read from the wrong column. *)
SubcatsFromCategory(full) == Unique(full, "Category")
subcats_all(full) == Unique(full, "SubCategory")
dmin(full) == MinOf(Unique(full, "Discount"))
dmax(full) == MaxOf(Unique(full, "Discount"))

Selection(regiones, categorias, subcats, lo, hi, untouched) ==
  [regiones |-> regiones, categorias |-> categorias, subcats |-> subcats,
   discount_range |-> <<lo, hi>>, untouched |-> untouched]

(* What the widgets return while the user has not touched them. *)
DefaultSelection(full) ==
  Selection(RegionOptions(full), CategoryOptions(full), subcats_all(full),
            dmin(full), dmax(full), TRUE)

(* What the widgets can return after the user has: any options, and any    *)
(* range of slider steps between the bounds.                               *)
UserSelections(full) ==
  {Selection(rs, cs, ss, range[1], range[2], FALSE) :
     rs \in SUBSET RegionOptions(full), cs \in SUBSET CategoryOptions(full),
     ss \in SUBSET subcats_all(full),
     range \in {r \in (dmin(full)..dmax(full)) \X (dmin(full)..dmax(full)) : r[1] <= r[2]}}

NoSelection == Selection({}, {}, {}, 0, 0, FALSE)

(***************************************************************************)
(* Filtered view (lines 115-121).                                          *)
(***************************************************************************)
(* Faulty variant of Passes: the upper end of the discount range is exclusive. *)
PassesBelowUpper(row, s) ==
  /\ row.Region \in s.regiones
  /\ row.Category \in s.categorias
  /\ row.SubCategory \in s.subcats
  /\ row.Discount >= s.discount_range[1]
  /\ row.Discount < s.discount_range[2]

Passes(row, s) ==
  /\ row.Region \in s.regiones
  /\ row.Category \in s.categorias
  /\ row.SubCategory \in s.subcats
  /\ row.Discount >= s.discount_range[1]
  /\ row.Discount <= s.discount_range[2]

FilteredView(full, s) == LET keep(row) == Passes(row, s) IN SelectSeq(full, keep)

(* Faulty variant of IsEmpty: the guard of line 123 never fires. *)
NeverEmpty(view) == FALSE
(* df.empty *)
IsEmpty(view) == view = <<>>

(***************************************************************************)
(* Aggregation (lines 133-158, 187-218, 341-381).  A quotient is kept as   *)
(* the pair <<numerator, denominator>>.                                    *)
(***************************************************************************)
KPIs(view) ==
  LET total_sales == SumSeq(Column(view, "Sales"))
      total_profit == SumSeq(Column(view, "Profit"))
  IN [total_sales |-> total_sales,
      total_profit |-> total_profit,
      avg_discount |-> <<SumSeq(Column(view, "Discount")), Len(view)>>,
      profit_margin |-> IF total_sales # 0 THEN <<total_profit, total_sales>> ELSE <<0, 1>>]

NoKPIs == [total_sales |-> 0, total_profit |-> 0, avg_discount |-> <<0, 1>>,
           profit_margin |-> <<0, 1>>]

(* Faulty variant of MaxAbs: the bound is left at 0 when every profit is 0. *)
MaxAbsNoFallback(view) ==
  LET profits == Unique(view, "Profit")
  IN IF Abs(MinOf(profits)) >= Abs(MaxOf(profits))
     THEN Abs(MinOf(profits)) ELSE Abs(MaxOf(profits))

MaxAbs(view) ==
  LET profits == Unique(view, "Profit")
      m == IF Abs(MinOf(profits)) >= Abs(MaxOf(profits))
           THEN Abs(MinOf(profits)) ELSE Abs(MaxOf(profits))
  IN IF m = 0 THEN 1 ELSE m

(* groupby(col)[what].sum(): the sum of `what` over the rows of each key. *)
GroupSum(view, col, key, what) ==
  LET inGroup(row) == row[col] = key IN SumSeq(Column(SelectSeq(view, inGroup), what))
GroupBy(view, col, what) == [k \in Unique(view, col) |-> GroupSum(view, col, k, what)]

(* sort_values(...).iloc[0]: a key of least sum; which one among equal     *)
(* sums is up to the sort.                                                 *)
FirstRows(sums) == {k \in DOMAIN sums : \A j \in DOMAIN sums : sums[k] <= sums[j]}

Worst(region, sub, view) ==
  [worst_region |-> region,
   worst_region_profit |-> GroupBy(view, "Region", "Profit")[region],
   worst_sub |-> sub,
   worst_sub_profit |-> GroupBy(view, "SubCategory", "Profit")[sub]]

NoWorst == [worst_region |-> "", worst_region_profit |-> 0,
            worst_sub |-> "", worst_sub_profit |-> 0]

(* The st.info text of lines 160-166: the names it prints and the figures. *)
InsightMessage(w) ==
  [region |-> "Central", region_profit |-> w.worst_region_profit,
   sub |-> "Tables", sub_profit |-> w.worst_sub_profit]

NoMessage == [region |-> "", region_profit |-> 0, sub |-> "", sub_profit |-> 0]

(* The st.info text of lines 411-417. *)
SummaryMessage(w) == [region |-> w.worst_region, sub |-> w.worst_sub]
NoSummary == [region |-> "", sub |-> ""]

(* sales_cat, profit_cat and tree_df as the set of their rows. *)
Rollups(view) ==
  [sales_cat |-> {[Category |-> c,
                   Sales |-> GroupSum(view, "Category", c, "Sales"),
                   Profit |-> GroupSum(view, "Category", c, "Profit")] :
                     c \in Unique(view, "Category")},
   profit_cat |-> GroupBy(view, "Category", "Profit"),
   tree_df |-> {LET same(row) == row.Category = r.Category
                                 /\ row.SubCategory = r.SubCategory
                    group == SelectSeq(view, same)
                IN [Category |-> r.Category, SubCategory |-> r.SubCategory,
                    Sales |-> SumSeq(Column(group, "Sales")),
                    Profit |-> SumSeq(Column(group, "Profit")),
                    Discount |-> <<SumSeq(Column(group, "Discount")), Len(group)>>] :
                  r \in Range(view)}]
NoRollups == [sales_cat |-> {}, profit_cat |-> <<>>, tree_df |-> {}]

(***************************************************************************)
(* The state x region frame: its row labels in order, its column labels,   *)
(* and its cells.                                                          *)
(***************************************************************************)
Frame(index, columns, cell) == [index |-> index, columns |-> columns, cell |-> cell]
NoFrame == Frame(<<>>, {}, <<>>)

(* Sum of the cells of one row over a set of columns. *)
RECURSIVE RowSum(_, _, _)
RowSum(cell, state, columns) ==
  IF columns = {} THEN 0
  ELSE LET c == CHOOSE x \in columns : TRUE
       IN cell[<<state, c>>] + RowSum(cell, state, columns \ {c})

(* groupby(["State","Region"])["Profit"].sum().unstack().fillna(0) *)
Unstack(view, order) ==
  LET regions == Unique(view, "Region")
      inCell(s, r) == LET both(row) == row.State = s /\ row.Region = r
                      IN SelectSeq(view, both)
  IN Frame(order, regions,
           [p \in Range(order) \X regions |-> SumSeq(Column(inCell(p[1], p[2]), "Profit"))])

(* pivot["Total"] = pivot.sum(axis=1): the column is added, or overwritten *)
(* where a column of that label exists.                                    *)
WithTotal(f) ==
  Frame(f.index, f.columns \cup {"Total"},
        [p \in Range(f.index) \X (f.columns \cup {"Total"}) |->
           IF p[2] = "Total" THEN RowSum(f.cell, p[1], f.columns) ELSE f.cell[p]])

(* Whether the rows are in ascending order of a column. *)
IsSortedBy(f, col) ==
  \A i, j \in 1..Len(f.index) :
     i < j => f.cell[<<f.index[i], col>>] <= f.cell[<<f.index[j], col>>]

(* .drop(columns=[col]) *)
DropColumn(f, col) ==
  Frame(f.index, f.columns \ {col},
        [p \in Range(f.index) \X (f.columns \ {col}) |-> f.cell[p]])

(* .head(n) *)
HeadRows(f, n) ==
  IF Len(f.index) > n
  THEN LET kept == SubSeq(f.index, 1, n)
       IN Frame(kept, f.columns, [p \in Range(kept) \X f.columns |-> f.cell[p]])
  ELSE f

(* The orders of the states of the view: the row orders a sort can leave. *)
Orders(view) ==
  LET states == Unique(view, "State")
  IN {o \in [1..Cardinality(states) -> states] : Range(o) = states}

(* Lines 367-381 with the rows taken in the order `order`; the sort leaves *)
(* them so only if `order` is ascending in Total.                          *)
Pivot(view, order) ==
  HeadRows(DropColumn(WithTotal(Unstack(view, order)), "Total"), MAX_STATES)
SortLeaves(view, order) == IsSortedBy(WithTotal(Unstack(view, order)), "Total")

(* Faulty variant of TabsBlock: the Total column is written into the filtered view. *)
TabsBlockInPlace(view, order) ==
  [df |-> [i \in 1..Len(view) |-> view[i] @@ ("Total" :> view[i].Profit)],
   pivot |-> Pivot(view, order)]

(* What tab 3 leaves of the two frames it works on: the filtered view is   *)
(* only read, the Total column is written into the pivot frame.            *)
TabsBlock(view, order) == [df |-> view, pivot |-> Pivot(view, order)]

(***************************************************************************)
(* The process.  pc is the place of the script in the current render pass. *)
(***************************************************************************)
AggregationDone == {"insight", "tabs", "summary", "done"}
InAggregation == {"kpis"} \cup AggregationDone

Init ==
  /\ fs \in InitTrees \cup InitDatasets
  /\ cache = [n \in FileNames |-> NoEntry]
  /\ reads = 0
  /\ served = "none"
  /\ pc = "start"
  /\ df_full = <<>>
  /\ sel = NoSelection
  /\ df = <<>>
  /\ warned = FALSE
  /\ kpis = NoKPIs
  /\ max_abs = 0
  /\ worst = NoWorst
  /\ insight = NoMessage
  /\ rollups = NoRollups
  /\ pivot = NoFrame
  /\ summary = NoSummary

(* Line 79 served by st.cache_data from memory. *)
LoadCached ==
  /\ pc = "start"
  /\ CacheHit(TARGET)
  /\ df_full' = cache[TARGET].value
  /\ served' = "cache"
  /\ pc' = "sidebar"
  /\ UNCHANGED <<fs, cache, reads, sel, df, warned, kpis, max_abs, worst, insight,
                 rollups, pivot, summary>>

(* Line 79 running the body of data_loader, which returns a table. *)
LoadFromDisk ==
  /\ pc = "start"
  /\ ~CacheHit(TARGET)
  /\ reads < MaxReads
  /\ \E keepsNaN \in BOOLEAN :
       LET r == data_loader(TARGET, keepsNaN)
       IN /\ r.found
          /\ cache' = [cache EXCEPT ![TARGET] = [cached |-> TRUE, value |-> r.df]]
          /\ df_full' = r.df
  /\ reads' = reads + 1
  /\ served' = "disk"
  /\ pc' = "sidebar"
  /\ UNCHANGED <<fs, sel, df, warned, kpis, max_abs, worst, insight, rollups, pivot,
                 summary>>

(* Line 79 running the body of data_loader, which raises FileNotFoundError: *)
(* nothing is cached and the pass ends.                                    *)
LoadNotFound ==
  /\ pc = "start"
  /\ ~CacheHit(TARGET)
  /\ reads < MaxReads
  /\ ~data_loader(TARGET, FALSE).found
  /\ reads' = reads + 1
  /\ served' = "disk"
  /\ pc' = "failed"
  /\ UNCHANGED <<fs, cache, df_full, sel, df, warned, kpis, max_abs, worst, insight,
                 rollups, pivot, summary>>

(* Lines 85-111 while the widgets hold their defaults. *)
SidebarDefault ==
  /\ pc = "sidebar"
  /\ sel' = DefaultSelection(df_full)
  /\ pc' = "filter"
  /\ UNCHANGED <<fs, cache, reads, served, df_full, df, warned, kpis, max_abs, worst,
                 insight, rollups, pivot, summary>>

(* Lines 85-111 after the user has set the widgets. *)
SidebarUser ==
  /\ pc = "sidebar"
  /\ sel' \in UserSelections(df_full)
  /\ pc' = "filter"
  /\ UNCHANGED <<fs, cache, reads, served, df_full, df, warned, kpis, max_abs, worst,
                 insight, rollups, pivot, summary>>

(* Lines 115-125: the filtered view; an empty one warns and stops the pass. *)
Filter ==
  /\ pc = "filter"
  /\ df' = FilteredView(df_full, sel)
  /\ warned' = IsEmpty(df')
  /\ pc' = IF IsEmpty(df') THEN "stopped" ELSE "kpis"
  /\ UNCHANGED <<fs, cache, reads, served, df_full, sel, kpis, max_abs, worst, insight,
                 rollups, pivot, summary>>

(* Lines 133-149. *)
Metrics ==
  /\ pc = "kpis"
  /\ kpis' = KPIs(df)
  /\ max_abs' = MaxAbs(df)
  /\ pc' = "insight"
  /\ UNCHANGED <<fs, cache, reads, served, df_full, sel, df, warned, worst, insight,
                 rollups, pivot, summary>>

(* Lines 151-166. *)
Insight ==
  /\ pc = "insight"
  /\ \E region \in FirstRows(GroupBy(df, "Region", "Profit")),
        sub \in FirstRows(GroupBy(df, "SubCategory", "Profit")) :
       worst' = Worst(region, sub, df)
  /\ insight' = InsightMessage(worst')
  /\ pc' = "tabs"
  /\ UNCHANGED <<fs, cache, reads, served, df_full, sel, df, warned, kpis, max_abs,
                 rollups, pivot, summary>>

(* Lines 171-403: the frames behind the charts of the three tabs. *)
Tabs ==
  /\ pc = "tabs"
  /\ rollups' = Rollups(df)
  /\ \E order \in Orders(df) :
       /\ SortLeaves(df, order)
       /\ df' = TabsBlock(df, order).df
       /\ pivot' = TabsBlock(df, order).pivot
  /\ pc' = "summary"
  /\ UNCHANGED <<fs, cache, reads, served, df_full, sel, warned, kpis, max_abs, worst,
                 insight, summary>>

(* Lines 408-417. *)
Summary ==
  /\ pc = "summary"
  /\ summary' = SummaryMessage(worst)
  /\ pc' = "done"
  /\ UNCHANGED <<fs, cache, reads, served, df_full, sel, df, warned, kpis, max_abs,
                 worst, insight, rollups, pivot>>

(* A widget change or a reload runs the script again from the top: the     *)
(* names of the script are rebuilt, the cache of st.cache_data stays.      *)
Rerun ==
  /\ pc \in {"done", "stopped", "failed"}
  /\ pc' = "start"
  /\ served' = "none"
  /\ df_full' = <<>>
  /\ sel' = NoSelection
  /\ df' = <<>>
  /\ warned' = FALSE
  /\ kpis' = NoKPIs
  /\ max_abs' = 0
  /\ worst' = NoWorst
  /\ insight' = NoMessage
  /\ rollups' = NoRollups
  /\ pivot' = NoFrame
  /\ summary' = NoSummary
  /\ UNCHANGED <<fs, cache, reads>>

Next ==
  \/ LoadCached
  \/ LoadFromDisk
  \/ LoadNotFound
  \/ SidebarDefault
  \/ SidebarUser
  \/ Filter
  \/ Metrics
  \/ Insight
  \/ Tabs
  \/ Summary
  \/ Rerun

Spec == Init /\ [][Next]_vars

(***************************************************************************)
(* Properties.                                                             *)
(***************************************************************************)
AfterFilter == InAggregation \cup {"stopped"}
Matches == {i \in 1..Len(fs) : fs[i].name = TARGET}
AllZero(view) == \A i \in 1..Len(view) : view[i].Profit = 0
CategoricalColumns == {"Region", "State", "Category", "SubCategory"}

(* The table data_loader builds from a file that has "Order Date". *)
TableOf(file, keepsNaN) ==
  LET cleaned == DropDuplicates(file.rows)
  IN [k \in 1..Len(cleaned) |-> Normalise(cleaned[k], keepsNaN)]

(* C1: data_loader returns the table of the first file of the name in      *)
(* traversal order, whatever its columns, and raises NotFound only when no *)
(* file of the name exists.  A file without "Order Date" is read as text   *)
(* only, so no normalised table equals its table.                          *)
C1_FirstMatchLoaded ==
  /\ pc = "failed" => Matches = {}
  /\ served = "disk" /\ pc = "sidebar" =>
       /\ Matches # {}
       /\ fs[MinOf(Matches)].hasOrderDate
       /\ \E keepsNaN \in BOOLEAN : df_full = TableOf(fs[MinOf(Matches)], keepsNaN)

(* C2: once data_loader has returned a table, every later call returns     *)
(* that table from memory: the body does not run again, the cached table   *)
(* stays, and the body has run to a table exactly once.                    *)
C2_LoadedOnce ==
  [][cache[TARGET].cached =>
       /\ reads = 1 /\ reads' = reads
       /\ cache' = cache
       /\ pc = "start" => pc' = "sidebar" /\ df_full' = cache[TARGET].value]_vars

C2_Witness ==
  /\ served = "cache" /\ pc = "sidebar"
  /\ reads = 1
  /\ df_full = cache[TARGET].value /\ df_full # <<>>

(* C3: the filtered view is the rows of the dataset, in the dataset's      *)
(* order, whose region, category and sub-category are selected and whose   *)
(* discount lies in [lo, hi]; it is empty when one of the sets is empty.   *)
C3_FilteredViewExact ==
  pc \in AfterFilter =>
    LET ok(row) == /\ row.Region \in sel.regiones
                   /\ row.Category \in sel.categorias
                   /\ row.SubCategory \in sel.subcats
                   /\ sel.discount_range[1] <= row.Discount
                   /\ row.Discount <= sel.discount_range[2]
        kept == {i \in 1..Len(df_full) : ok(df_full[i])}
    IN /\ \E at \in [1..Len(df) -> 1..Len(df_full)] :
            /\ \A j, k \in 1..Len(df) : j < k => at[j] < at[k]
            /\ Range(at) = kept
            /\ \A k \in 1..Len(df) : df[k] = df_full[at[k]]
       /\ ({} \in {sel.regiones, sel.categorias, sel.subcats} => df = <<>>)

C3_Witness ==
  /\ pc = "kpis"
  /\ Len(df_full) = 2 /\ Len(df) = 1
  /\ \E i \in 1..2 :
       /\ df_full[i] # df[1]
       /\ df_full[i].Region \in sel.regiones
       /\ df_full[i].Category \in sel.categorias
       /\ df_full[i].SubCategory \in sel.subcats
       /\ df_full[i].Discount > sel.discount_range[2]

(* C4: the untouched widgets select every distinct region, category and    *)
(* sub-category and the discounts from the least to the greatest of the    *)
(* dataset, and the filtered view is then the whole dataset.               *)
C4_DefaultKeepsAll ==
  sel.untouched =>
    /\ sel.regiones = {df_full[i].Region : i \in 1..Len(df_full)}
    /\ sel.categorias = {df_full[i].Category : i \in 1..Len(df_full)}
    /\ sel.subcats = {df_full[i].SubCategory : i \in 1..Len(df_full)}
    /\ \A i \in 1..Len(df_full) :
         sel.discount_range[1] <= df_full[i].Discount
         /\ df_full[i].Discount <= sel.discount_range[2]
    /\ \E i, j \in 1..Len(df_full) :
         sel.discount_range = <<df_full[i].Discount, df_full[j].Discount>>
    /\ pc \in AfterFilter => df = df_full

C4_Witness ==
  /\ pc = "kpis" /\ sel.untouched
  /\ Len(df_full) = 2 /\ df = df_full
  /\ df_full[1].Discount # df_full[2].Discount
  /\ df_full[1].SubCategory # df_full[2].SubCategory

(* C5: a pass whose filtered view is empty warns and stops with no         *)
(* aggregate computed; wherever a pass is in the aggregation, its filtered *)
(* view is not empty.                                                      *)
C5_EmptyViewStops ==
  /\ pc \in InAggregation => df # <<>> /\ ~warned
  /\ pc \in AfterFilter /\ df = <<>> => pc = "stopped"
  /\ pc = "stopped" =>
       /\ warned /\ df = <<>>
       /\ kpis = NoKPIs /\ max_abs = 0 /\ worst = NoWorst /\ insight = NoMessage
       /\ rollups = NoRollups /\ pivot = NoFrame /\ summary = NoSummary

C5_Witness ==
  /\ pc = "stopped" /\ warned
  /\ sel.categorias = {} /\ sel.regiones # {} /\ sel.subcats # {}

(* C6: in the loaded table every categorical cell that was missing in the  *)
(* file is the text "Unknown", and none is another form of a missing       *)
(* value.                                                                  *)
C6_MissingIsUnknown ==
  cache[TARGET].cached =>
    \E i \in Matches :
      LET cleaned == DropDuplicates(fs[i].rows)
          table == cache[TARGET].value
      IN /\ Len(table) = Len(cleaned)
         /\ \A k \in 1..Len(table), col \in CategoricalColumns :
              /\ cleaned[k][col] = "" => table[k][col] = "Unknown"
              /\ table[k][col] \notin {NaN, "nan"}

(* C7 as stated: max_abs bounds every |profit| of the view and is 1.0      *)
(* exactly when every profit is 0.                                         *)
C7_OneIffAllZero ==
  pc \in AggregationDone =>
    /\ \A i \in 1..Len(df) : max_abs >= Abs(df[i].Profit)
    /\ max_abs = 1 <=> AllZero(df)

(* C7 amended: max_abs bounds every |profit| of the view; it is 1.0 when   *)
(* every profit is 0 and the greatest |profit| otherwise.                  *)
C7_BoundOrFallback ==
  pc \in AggregationDone =>
    /\ \A i \in 1..Len(df) : max_abs >= Abs(df[i].Profit)
    /\ AllZero(df) => max_abs = 1
    /\ ~AllZero(df) => \E i \in 1..Len(df) : max_abs = Abs(df[i].Profit)

C7_Witness ==
  /\ pc = "insight"
  /\ max_abs = 1
  /\ AllZero(df) /\ Len(df) = 2

(* C8: the priority insight names a region and a sub-category of least     *)
(* grouped profit in the view, each with its own grouped profit.           *)
C8_InsightNamesWorst ==
  pc \in {"tabs", "summary", "done"} =>
    LET sumOf(col, key) ==
          LET inGroup(row) == row[col] = key
          IN SumSeq(Column(SelectSeq(df, inGroup), "Profit"))
        least(col, key) ==
          /\ \E i \in 1..Len(df) : df[i][col] = key
          /\ \A i \in 1..Len(df) : sumOf(col, key) <= sumOf(col, df[i][col])
    IN /\ least("Region", insight.region)
       /\ insight.region_profit = sumOf("Region", insight.region)
       /\ least("SubCategory", insight.sub)
       /\ insight.sub_profit = sumOf("SubCategory", insight.sub)

(* C9: the pivot has a row per state (at most MAX_STATES, those of least   *)
(* row total, in ascending order of row total) and a column per region of  *)
(* the view, each cell the profit of its state and region, 0 where there   *)
(* is no such row.                                                         *)
C9_PivotShape ==
  pc \in {"summary", "done"} =>
    LET states == {df[i].State : i \in 1..Len(df)}
        regions == {df[i].Region : i \in 1..Len(df)}
        cellOf(s, r) == LET both(row) == row.State = s /\ row.Region = r
                        IN SumSeq(Column(SelectSeq(df, both), "Profit"))
        totalOf(s) == LET inState(row) == row.State = s
                      IN SumSeq(Column(SelectSeq(df, inState), "Profit"))
        n == Len(pivot.index)
    IN /\ pivot.columns = regions
       /\ Range(pivot.index) \subseteq states
       /\ \A i, j \in 1..n : i < j => pivot.index[i] # pivot.index[j]
       /\ n = IF Cardinality(states) > MAX_STATES THEN MAX_STATES ELSE Cardinality(states)
       /\ \A i, j \in 1..n : i < j => totalOf(pivot.index[i]) <= totalOf(pivot.index[j])
       /\ \A s \in states \ Range(pivot.index), i \in 1..n :
            totalOf(pivot.index[i]) <= totalOf(s)
       /\ DOMAIN pivot.cell = Range(pivot.index) \X regions
       /\ \A s \in Range(pivot.index), r \in pivot.columns \cap regions :
            pivot.cell[<<s, r>>] = cellOf(s, r)

(* C10: no step after the load changes the cached dataset, no aggregation  *)
(* step changes the filtered view or the dataset of the pass, and the      *)
(* dataset a pass filters is the cached one.                               *)
C10_FramesUntouched ==
  [][/\ cache[TARGET].cached => cache' = cache
     /\ pc \in {"sidebar", "filter"} \cup InAggregation =>
          df_full = cache[TARGET].value
     /\ pc \in {"sidebar", "filter"} \cup InAggregation /\ pc' # "start" =>
          df_full' = df_full
     /\ pc \in InAggregation /\ pc' # "start" => df' = df]_vars

C10_Witness ==
  /\ pc = "done" /\ served = "cache"
  /\ df # <<>> /\ Len(df) < Len(df_full)
  /\ df_full = cache[TARGET].value

====
